---- MODULE Spec2Model ----
(***************************************************************************)
(* SD card inventory (src/app.py): the sdcards table, the seeding routine, *)
(* the two transactional store operations checkout_cards and return_card,  *)
(* the read queries, and the screens of main that drive them.              *)
(*                                                                         *)
(* The source writes status and container labels in Japanese; the strings  *)
(* are transliterated here.  A nullable column holds NULL (the empty       *)
(* tuple) or Val(v) (a one-element tuple), so that the empty string is a   *)
(* value distinct from NULL, as it is in SQLite.                           *)
(***************************************************************************)
EXTENDS Integers, Sequences, FiniteSets, TLC

----------------------------------------------------------------------------
(* Bounds of the exploration *)

\* longest batch of ids handed to checkout_cards
MaxBatch == 2
\* the clock of datetime.now() stops at MaxTime
MaxTime == 2

----------------------------------------------------------------------------
(* Values of the program *)

AVAILABLE == "zaiko-ari"
CHECKED_OUT == "kashidashi-chu"

CASE_SD1 == "SD-card-1"
CASE_SD2 == "SD-card-2"
CASE_MICRO == "micro-SD-card"

CardsPerCase == 40
Band32Max == 11
Band64Max == 18

NULL == <<>>
Val(v) == <<v>>

\* a key st.session_state does not hold, a selectbox with nothing chosen
ABSENT == <<>>

\* ids the callers name: the first card of two containers, and an id that
\* matches no row of the seeded table
CardIds == {1, CardsPerCase + 1, 3 * CardsPerCase + 1}
Users == {"Alice", "Bob"}
Equipments == {"CamA"}
Notes == {"Interview"}

----------------------------------------------------------------------------
(* The table and its seeding *)

\* sdcards: the table, id -> row;  now: the clock datetime.now() reads;
\* call, ret: the store call of the last step and what it handed back
VARIABLES sdcards, now, call, ret

\* st.session_state of the one browser session: mode, checkout_info and
\* selected_cards are its keys, each ABSENT or Val(v);  case_choice: what the
\* selectbox of the return and the stock screen holds;  event: what the user
\* did on the screen in the last step
VARIABLES mode, checkout_info, selected_cards, case_choice, event

\* selected_cards of a second browser session, on its selection screen
VARIABLES other_selected

session == <<mode, checkout_info, selected_cards, case_choice, event, other_selected>>
vars == <<sdcards, now, call, ret, mode, checkout_info, selected_cards, case_choice, event,
          other_selected>>

SetMax(S) == CHOOSE m \in S : \A x \in S : x <= m

\* the row INSERT INTO sdcards (card_number, card_index, status, capacity,
\* case_number) stores under the primary key id: the unnamed columns are NULL
NewRow(id, r) ==
    [id |-> id,
     card_number |-> r.card_number,
     card_index |-> r.card_index,
     status |-> AVAILABLE,
     capacity |-> r.capacity,
     checkout_date |-> NULL,
     user_name |-> NULL,
     equipment |-> NULL,
     case_number |-> r.case_number,
     shoot_content |-> NULL]

\* one INSERT per element of rows, in order: each INTEGER PRIMARY KEY is the
\* largest id of the table plus one
InsertAll(t, rows) ==
    LET base == IF DOMAIN t = {} THEN 0 ELSE SetMax(DOMAIN t)
    IN  t @@ [id \in (base + 1)..(base + Len(rows)) |-> NewRow(id, rows[id - base])]

\* bands whose first boundary is off by one: 12 falls into the 32G band
Sd1Capacity_ShiftedBand(num) ==
    IF 1 <= num /\ num <= Band32Max + 1 THEN "32G"
    ELSE IF Band32Max + 2 <= num /\ num <= Band64Max THEN "64G"
    ELSE IF Band64Max + 1 <= num /\ num <= CardsPerCase THEN "128G"
    ELSE NULL

\* the capacity bands of the first container
Sd1Capacity(num) ==
    IF 1 <= num /\ num <= Band32Max THEN "32G"
    ELSE IF Band32Max + 1 <= num /\ num <= Band64Max THEN "64G"
    ELSE IF Band64Max + 1 <= num /\ num <= CardsPerCase THEN "128G"
    ELSE NULL

Sd1Rows ==
    [num \in 1..CardsPerCase |->
        [card_number |-> "SD1-" \o ToString(num), card_index |-> num,
         capacity |-> Sd1Capacity(num), case_number |-> CASE_SD1]]

Sd2Rows ==
    [num \in 1..CardsPerCase |->
        [card_number |-> "SD2-" \o ToString(num), card_index |-> num,
         capacity |-> "64G", case_number |-> CASE_SD2]]

MicroRows ==
    [num \in 1..CardsPerCase |->
        [card_number |-> "microSD-" \o ToString(num), card_index |-> num,
         capacity |-> "32G", case_number |-> CASE_MICRO]]

\* a seeding that does not look at the table: it stores the initial rows anew
insert_initial_data_Anew(t) ==
    InsertAll(InsertAll(InsertAll(<<>>, Sd1Rows), Sd2Rows), MicroRows)

\* insert_initial_data: rows are inserted only when SELECT COUNT(*) is 0
insert_initial_data(t) ==
    IF Cardinality(DOMAIN t) = 0
    THEN InsertAll(InsertAll(InsertAll(t, Sd1Rows), Sd2Rows), MicroRows)
    ELSE t

----------------------------------------------------------------------------
(* Store failures *)

\* A statement of a transaction that raises.  at: the statement ("none": the
\* store is healthy); k: which UPDATE of the loop; txAlive: whether SQLite
\* left the transaction open after the error (it rolls the transaction back
\* by itself on errors such as a full disk or an I/O error).  A BEGIN that
\* raises has opened no transaction.
NoFault == [at |-> "none", k |-> 0, txAlive |-> TRUE]

Faults ==
    {NoFault}
    \cup {[at |-> "begin", k |-> 0, txAlive |-> FALSE]}
    \cup [at : {"select", "rollback", "commit"}, k : {0}, txAlive : BOOLEAN]
    \cup [at : {"update"}, k : 1..MaxBatch, txAlive : BOOLEAN]

\* what a call hands back: a (success, message) pair, or an exception that
\* leaves the method
Returned(success, kind, names) ==
    [outcome |-> "returned", success |-> success,
     message |-> [kind |-> kind, names |-> names]]

Raised == [outcome |-> "raised", success |-> FALSE,
           message |-> [kind |-> "exception", names |-> <<>>]]

\* ROLLBACK drops the work of the open transaction, COMMIT stores it
Rollback(t, work) == t
Commit(t, work) == work

\* a handler that keeps the work of the failed transaction
ExceptHandler_KeepsWork(t, work, f) ==
    IF f.txAlive
    THEN [db |-> Commit(t, work), ret |-> Returned(FALSE, "error", <<f.at>>)]
    ELSE [db |-> t, ret |-> Raised]

\* except Exception as e: c.execute('ROLLBACK'); return False, error message.
\* ROLLBACK raises in turn when no transaction is active, and that exception
\* leaves the method; the work of the transaction is gone either way.
ExceptHandler(t, work, f) ==
    IF f.txAlive
    THEN [db |-> Rollback(t, work),
          ret |-> Returned(FALSE, "error", <<f.at>>)]
    ELSE [db |-> t, ret |-> Raised]

----------------------------------------------------------------------------
(* checkout_cards *)

RECURSIVE Ascending(_)
Ascending(S) ==
    IF S = {} THEN <<>>
    ELSE LET m == CHOOSE x \in S : \A y \in S : x <= y
         IN  <<m>> \o Ascending(S \ {m})

Range(seq) == {seq[i] : i \in DOMAIN seq}

\* a SELECT that reads the status of the first id of the batch alone
SelectStatuses_FirstOnly(t, card_ids) ==
    LET ids == Ascending({card_ids[i] : i \in DOMAIN card_ids \cap {1}} \cap DOMAIN t)
    IN  [i \in DOMAIN ids |-> <<ids[i], t[ids[i]].status>>]

\* SELECT id, status FROM sdcards WHERE id IN (card_ids): the matching rows,
\* each once, in the order of the primary key
SelectStatuses(t, card_ids) ==
    LET ids == Ascending(Range(card_ids) \cap DOMAIN t)
    IN  [i \in DOMAIN ids |-> <<ids[i], t[ids[i]].status>>]

\* a comprehension that compares the status with a string no row holds
UnavailableCards_NeverAny(statuses) ==
    LET bad == SelectSeq(statuses, LAMBDA r : r[2] \notin {AVAILABLE, CHECKED_OUT})
    IN  [i \in DOMAIN bad |-> ToString(bad[i][1])]

\* [str(id) for id, status in statuses if status != AVAILABLE]
UnavailableCards(statuses) ==
    LET bad == SelectSeq(statuses, LAMBDA r : r[2] # AVAILABLE)
    IN  [i \in DOMAIN bad |-> ToString(bad[i][1])]

\* datetime.now(): the j-th reading after clock; each reading is later than
\* the one before, until the clock stops at MaxTime
ClockAfter(clock, j) == IF clock + j <= MaxTime THEN clock + j ELSE MaxTime

\* an UPDATE with the borrower and the equipment bound to each other's column
UpdateCheckout_Swapped(t, card_id, checkout_date, user_name, equipment, shoot_content) ==
    IF card_id \in DOMAIN t
    THEN [t EXCEPT ![card_id].status = CHECKED_OUT,
                   ![card_id].checkout_date = Val(checkout_date),
                   ![card_id].user_name = Val(equipment),
                   ![card_id].equipment = Val(user_name),
                   ![card_id].shoot_content = Val(shoot_content)]
    ELSE t

\* an UPDATE that also writes the equipment into the capacity column
UpdateCheckout_Capacity(t, card_id, checkout_date, user_name, equipment, shoot_content) ==
    IF card_id \in DOMAIN t
    THEN [t EXCEPT ![card_id].status = CHECKED_OUT,
                   ![card_id].capacity = equipment,
                   ![card_id].checkout_date = Val(checkout_date),
                   ![card_id].user_name = Val(user_name),
                   ![card_id].equipment = Val(equipment),
                   ![card_id].shoot_content = Val(shoot_content)]
    ELSE t

\* an UPDATE whose WHERE clause names the container of the card
UpdateCheckout_WholeCase(t, card_id, checkout_date, user_name, equipment, shoot_content) ==
    IF card_id \in DOMAIN t
    THEN [id \in DOMAIN t |->
             IF t[id].case_number = t[card_id].case_number
             THEN [t[id] EXCEPT !.status = CHECKED_OUT,
                                !.checkout_date = Val(checkout_date),
                                !.user_name = Val(user_name),
                                !.equipment = Val(equipment),
                                !.shoot_content = Val(shoot_content)]
             ELSE t[id]]
    ELSE t

\* UPDATE sdcards SET status, checkout_date, user_name, equipment,
\* shoot_content WHERE id = card_id; an id matching no row updates nothing
UpdateCheckout(t, card_id, checkout_date, user_name, equipment, shoot_content) ==
    IF card_id \in DOMAIN t
    THEN [t EXCEPT ![card_id].status = CHECKED_OUT,
                   ![card_id].checkout_date = Val(checkout_date),
                   ![card_id].user_name = Val(user_name),
                   ![card_id].equipment = Val(equipment),
                   ![card_id].shoot_content = Val(shoot_content)]
    ELSE t

\* the first n rounds of: for card_id in card_ids: UPDATE ...
RECURSIVE UpdateLoop(_, _, _, _, _, _, _)
UpdateLoop(t, card_ids, clock, n, user_name, equipment, shoot_content) ==
    IF n = 0 THEN t
    ELSE UpdateCheckout(
             UpdateLoop(t, card_ids, clock, n - 1, user_name, equipment, shoot_content),
             card_ids[n], ClockAfter(clock, n - 1), user_name, equipment, shoot_content)

\* clock is the reading of datetime.now() in the first round of the loop
checkout_cards(t, card_ids, user_name, equipment, shoot_content, clock, f) ==
    LET statuses == SelectStatuses(t, card_ids)
        unavailable_cards == UnavailableCards(statuses)
        n == Len(card_ids)
        done == IF f.at = "update" /\ f.k <= n THEN f.k - 1 ELSE n
        work == UpdateLoop(t, card_ids, clock, done, user_name, equipment, shoot_content)
    IN  IF f.at = "begin" THEN ExceptHandler(t, t, f)
        ELSE IF f.at = "select" THEN ExceptHandler(t, t, f)
        ELSE IF unavailable_cards # <<>>
        THEN IF f.at = "rollback" THEN ExceptHandler(t, t, f)
             ELSE [db |-> Rollback(t, t),
                   ret |-> Returned(FALSE, "unavailable", unavailable_cards)]
        ELSE IF f.at = "update" /\ f.k <= n THEN ExceptHandler(t, work, f)
        ELSE IF f.at = "commit" THEN ExceptHandler(t, work, f)
        ELSE [db |-> Commit(t, work), ret |-> Returned(TRUE, "checkout-done", <<>>)]

----------------------------------------------------------------------------
(* return_card *)

\* an UPDATE that leaves the note of the last checkout in the row
UpdateReturn_KeepsNote(t, card_id) ==
    IF card_id \in DOMAIN t
    THEN [t EXCEPT ![card_id].status = AVAILABLE,
                   ![card_id].checkout_date = NULL,
                   ![card_id].user_name = NULL,
                   ![card_id].equipment = NULL]
    ELSE t

\* an UPDATE without its WHERE clause
UpdateReturn_EveryRow(t, card_id) ==
    IF card_id \in DOMAIN t
    THEN [id \in DOMAIN t |->
             [t[id] EXCEPT !.status = AVAILABLE, !.checkout_date = NULL,
                           !.user_name = NULL, !.equipment = NULL,
                           !.shoot_content = NULL]]
    ELSE t

\* an UPDATE that sets the status and leaves the four checkout columns
UpdateReturn_StatusOnly(t, card_id) ==
    IF card_id \in DOMAIN t
    THEN [t EXCEPT ![card_id].status = AVAILABLE]
    ELSE t

\* UPDATE sdcards SET status = AVAILABLE, the four checkout columns = NULL
UpdateReturn(t, card_id) ==
    IF card_id \in DOMAIN t
    THEN [t EXCEPT ![card_id].status = AVAILABLE,
                   ![card_id].checkout_date = NULL,
                   ![card_id].user_name = NULL,
                   ![card_id].equipment = NULL,
                   ![card_id].shoot_content = NULL]
    ELSE t

return_card(t, card_id, f) ==
    LET found == card_id \in DOMAIN t
        work == UpdateReturn(t, card_id)
    IN  IF f.at = "begin" THEN ExceptHandler(t, t, f)
        ELSE IF f.at = "select" THEN ExceptHandler(t, t, f)
        ELSE IF ~found \/ t[card_id].status # CHECKED_OUT
        THEN IF f.at = "rollback" THEN ExceptHandler(t, t, f)
             ELSE [db |-> Rollback(t, t), ret |-> Returned(FALSE, "cannot-return", <<>>)]
        ELSE IF f.at = "update" THEN ExceptHandler(t, work, f)
        ELSE IF f.at = "commit" THEN ExceptHandler(t, work, f)
        ELSE [db |-> Commit(t, work), ret |-> Returned(TRUE, "return-done", <<>>)]

----------------------------------------------------------------------------
(* Read queries: the rows in the order of card_index *)

\* SELECT ... WHERE Test ORDER BY card_index: the rows of the table that pass
\* Test, the smallest card_index first
SelectOrdered(t, Test(_)) ==
    SortSeq(SelectSeq(t, Test), LAMBDA a, b : a.card_index < b.card_index)

CaseNumbers == {CASE_SD1, CASE_SD2, CASE_MICRO}

\* SELECT DISTINCT case_number FROM sdcards
get_case_numbers(t) == {t[id].case_number : id \in DOMAIN t}

\* the query without its test of the status
get_available_cards_by_case_AnyStatus(t, case_number) ==
    LET rows == SelectOrdered(t, LAMBDA r : r.case_number = case_number)
    IN  [i \in DOMAIN rows |->
            [id |-> rows[i].id, card_number |-> rows[i].card_number,
             capacity |-> rows[i].capacity]]

get_available_cards_by_case(t, case_number) ==
    LET rows == SelectOrdered(t, LAMBDA r : r.case_number = case_number
                                             /\ r.status = AVAILABLE)
    IN  [i \in DOMAIN rows |->
            [id |-> rows[i].id, card_number |-> rows[i].card_number,
             capacity |-> rows[i].capacity]]

get_checked_out_cards_by_case(t, case_number) ==
    LET rows == SelectOrdered(t, LAMBDA r : r.case_number = case_number
                                             /\ r.status = CHECKED_OUT)
    IN  [i \in DOMAIN rows |->
            [id |-> rows[i].id, card_number |-> rows[i].card_number,
             capacity |-> rows[i].capacity, user_name |-> rows[i].user_name,
             equipment |-> rows[i].equipment, shoot_content |-> rows[i].shoot_content,
             checkout_date |-> rows[i].checkout_date]]

get_cards_by_case(t, case_number) ==
    LET rows == SelectOrdered(t, LAMBDA r : r.case_number = case_number)
    IN  [i \in DOMAIN rows |->
            [card_number |-> rows[i].card_number, status |-> rows[i].status,
             capacity |-> rows[i].capacity, checkout_date |-> rows[i].checkout_date,
             user_name |-> rows[i].user_name, equipment |-> rows[i].equipment,
             case_number |-> rows[i].case_number,
             shoot_content |-> rows[i].shoot_content]]

----------------------------------------------------------------------------
(* The store as its callers drive it *)

\* the batches of ids: no id twice, as in the selection list of the screen
Batches ==
    UNION {{b \in [1..n -> CardIds] : \A i, j \in 1..n : b[i] = b[j] => i = j} :
           n \in 0..MaxBatch}

\* only a statement the call executes can raise
CheckoutExecutes(t, card_ids, f) ==
    LET refused == UnavailableCards(SelectStatuses(t, card_ids)) # <<>>
    IN  CASE f.at = "rollback" -> refused
          [] f.at = "update" -> ~refused /\ f.k <= Len(card_ids)
          [] f.at = "commit" -> ~refused
          [] OTHER -> TRUE

ReturnExecutes(t, card_id, f) ==
    LET refused == IF card_id \in DOMAIN t THEN t[card_id].status # CHECKED_OUT ELSE TRUE
    IN  CASE f.at = "rollback" -> refused
          [] f.at = "update" -> ~refused /\ f.k = 1
          [] f.at = "commit" -> ~refused
          [] OTHER -> TRUE

\* the readings of datetime.now() a checkout makes: one for each round of
\* the loop it reaches
Rounds(t, card_ids, f) ==
    IF f.at \in {"begin", "select"} \/ UnavailableCards(SelectStatuses(t, card_ids)) # <<>>
    THEN 0
    ELSE IF f.at = "update" /\ f.k <= Len(card_ids) THEN f.k
    ELSE Len(card_ids)

\* what the user did: the button, checkbox or selectbox, whether a
\* submitted form left a required field empty, the card of a checkbox or a
\* return button
Did(name) == [name |-> name, incomplete |-> FALSE, card_id |-> 0]
Submitted(missing) == [name |-> "submit", incomplete |-> missing # {}, card_id |-> 0]
Clicked(name, card_id) == [name |-> name, incomplete |-> FALSE, card_id |-> card_id]

NoArgs == [card_ids |-> <<>>, user_name |-> "", equipment |-> "", shoot_content |-> ""]

Init ==
    /\ sdcards = <<>>
    /\ now = 1
    /\ call = [op |-> "init", args |-> NoArgs]
    /\ ret = Returned(TRUE, "", <<>>)
    /\ mode = ABSENT
    /\ checkout_info = ABSENT
    /\ selected_cards = ABSENT
    /\ case_choice = ABSENT
    /\ event = Did("none")
    /\ other_selected = <<>>

\* a run of main that calls neither checkout_cards nor return_card
SeedOnly ==
    /\ sdcards' = insert_initial_data(sdcards)
    /\ now' = now
    /\ call' = [op |-> "seed", args |-> NoArgs]
    /\ ret' = Returned(TRUE, "", <<>>)

Seed == SeedOnly /\ UNCHANGED session

\* main runs insert_initial_data before it constructs SDCardApp, so no call
\* of the store finds the table empty
Seeded == Cardinality(DOMAIN sdcards) > 0

\* user_name reaches the UPDATE as a bound parameter and nothing else, so
\* which statement raises does not depend on it: one borrower makes the
\* calls in which a statement raises, every borrower the others
Callers(f) == IF f = NoFault THEN Users ELSE {CHOOSE u \in Users : TRUE}

CheckoutCards(f) ==
    \E card_ids \in Batches, user_name \in Callers(f), equipment \in Equipments,
       shoot_content \in Notes :
        LET r == checkout_cards(sdcards, card_ids, user_name, equipment,
                                shoot_content, now, f)
        IN  /\ Seeded
            /\ CheckoutExecutes(sdcards, card_ids, f)
            /\ sdcards' = r.db
            /\ now' = ClockAfter(now, Rounds(sdcards, card_ids, f))
            /\ call' = [op |-> "checkout",
                        args |-> [card_ids |-> card_ids, user_name |-> user_name,
                                  equipment |-> equipment,
                                  shoot_content |-> shoot_content]]
            /\ ret' = r.ret
            /\ UNCHANGED session

ReturnCard(f) ==
    \E card_id \in CardIds :
        LET r == return_card(sdcards, card_id, f)
        IN  /\ Seeded
            /\ ReturnExecutes(sdcards, card_id, f)
            /\ sdcards' = r.db
            /\ now' = now
            /\ call' = [op |-> "return", args |-> [NoArgs EXCEPT !.card_ids = <<card_id>>]]
            /\ ret' = r.ret
            /\ UNCHANGED session

\* a healthy store
Checkout == CheckoutCards(NoFault)
Return == ReturnCard(NoFault)

Next == Seed \/ Checkout \/ Return

Spec == Init /\ [][Next]_vars

\* a store whose statements may raise
CheckoutFaulty == \E f \in Faults : CheckoutCards(f)
ReturnFaulty == \E f \in Faults : ReturnCard(f)

NextFault == Seed \/ CheckoutFaulty \/ ReturnFaulty

SpecFault == Init /\ [][NextFault]_vars

----------------------------------------------------------------------------
(* The screens of main: one action for each thing the user can do on the   *)
(* screen, with the run of main it triggers.  Every run starts with        *)
(* insert_initial_data; a run that ends in st.rerun() is followed by a run *)
(* in which no button is pressed, which changes nothing further.           *)

SELECT == "select"
CHECKOUT == "checkout"
RETURN == "return"
STATS == "stats"

Ids(rows) == {rows[i].id : i \in DOMAIN rows}

\* list.remove(card_id)
Remove(seq, card_id) == SelectSeq(seq, LAMBDA x : x # card_id)

\* what the form can hold when it is submitted: a text input left empty is
\* "", a selectbox with nothing chosen is ABSENT
FormUsers == Users \cup {""}
FormEquipments == Equipments \cup {""}
FormCases == {ABSENT} \cup {Val(c) : c \in CaseNumbers}

\* the first run of main in the session
Open ==
    /\ mode = ABSENT
    /\ SeedOnly
    /\ mode' = Val(SELECT)
    /\ event' = Did("open")
    /\ UNCHANGED other_selected
    /\ UNCHANGED <<checkout_info, selected_cards, case_choice>>

\* the three buttons of the start screen
EnterCheckout ==
    /\ mode = Val(SELECT)
    /\ SeedOnly
    /\ mode' = Val(CHECKOUT)
    /\ checkout_info' = ABSENT
    /\ selected_cards' = ABSENT
    /\ event' = Did("enter-checkout")
    /\ UNCHANGED other_selected
    /\ UNCHANGED case_choice

EnterReturn ==
    /\ mode = Val(SELECT)
    /\ SeedOnly
    /\ mode' = Val(RETURN)
    /\ event' = Did("enter-return")
    /\ UNCHANGED other_selected
    /\ UNCHANGED <<checkout_info, selected_cards, case_choice>>

EnterStats ==
    /\ mode = Val(SELECT)
    /\ SeedOnly
    /\ mode' = Val(STATS)
    /\ event' = Did("enter-stats")
    /\ UNCHANGED other_selected
    /\ UNCHANGED <<checkout_info, selected_cards, case_choice>>

\* the required fields a form leaves empty
Missing(user_name, equipment, case_number) ==
    {x \in {"user_name"} : user_name = ""}
        \cup {x \in {"equipment"} : equipment = ""}
        \cup {x \in {"case_number"} : case_number = ABSENT}

\* the forms the user submits: every complete form, and for each set of
\* required fields one form that leaves exactly these empty
Forms ==
    LET all == [user_name : FormUsers, equipment : FormEquipments,
                case_number : FormCases, shoot_content : Notes]
        complete == {form \in all :
                        Missing(form.user_name, form.equipment, form.case_number) = {}}
        full == CHOOSE form \in complete : TRUE
        Blank(form) == [user_name |-> IF form.user_name = "" THEN "" ELSE full.user_name,
                        equipment |-> IF form.equipment = "" THEN "" ELSE full.equipment,
                        case_number |-> IF form.case_number = ABSENT THEN ABSENT
                                        ELSE full.case_number,
                        shoot_content |-> full.shoot_content]
    IN  complete \cup {form \in all \ complete : form = Blank(form)}

\* a validation that does not look at the equipment
Validate_SkipsEquipment(info, user_name, equipment, case_number, shoot_content) ==
    IF user_name = "" THEN info
    ELSE IF case_number = ABSENT THEN info
    ELSE Val([user_name |-> user_name, equipment |-> equipment,
              shoot_content |-> shoot_content, case_number |-> case_number[1]])

\* the form data after a submission: the first missing field reports an
\* error and the stored data stay what they were
Validate(info, user_name, equipment, case_number, shoot_content) ==
    IF user_name = "" THEN info
    ELSE IF equipment = "" THEN info
    ELSE IF case_number = ABSENT THEN info
    ELSE Val([user_name |-> user_name, equipment |-> equipment,
              shoot_content |-> shoot_content, case_number |-> case_number[1]])

\* the cards the selection screen shows with a checkbox
Shown(t, info) ==
    IF info = ABSENT THEN <<>>
    ELSE get_available_cards_by_case(t, info[1].case_number)

\* the selection after the checkboxes of the screen are drawn: the list is
\* created when there is a card to show.  The checkbox of a shown card holds
\* whether the card is in the list (it is created with that value, and the
\* loop makes the list follow it), so only the box the user has just clicked
\* differs from the list
DrawCheckboxes(t, info, selected, clicked) ==
    LET available_cards == Shown(t, info)
        list == IF selected = ABSENT THEN <<>> ELSE selected[1]
    IN  IF Len(available_cards) = 0 THEN selected
        ELSE IF clicked \in Ids(available_cards)
             THEN IF clicked \in Range(list)
                  THEN Val(Remove(list, clicked))
                  ELSE Val(Append(list, clicked))
             ELSE Val(list)

NoClick == 0

SubmitForm ==
    \E form \in Forms :
        LET t == insert_initial_data(sdcards)
            info == Validate(checkout_info, form.user_name, form.equipment,
                             form.case_number, form.shoot_content)
        IN  /\ mode = Val(CHECKOUT)
            /\ SeedOnly
            /\ checkout_info' = info
            /\ selected_cards' = DrawCheckboxes(t, info, selected_cards, NoClick)
            /\ event' = Submitted(Missing(form.user_name, form.equipment,
                                           form.case_number))
            /\ UNCHANGED other_selected
            /\ UNCHANGED <<mode, case_choice>>

Toggle ==
    \E card_id \in CardIds :
        LET t == insert_initial_data(sdcards)
        IN  /\ mode = Val(CHECKOUT)
            /\ SeedOnly
            /\ card_id \in Ids(Shown(t, checkout_info))
            /\ selected_cards' = DrawCheckboxes(t, checkout_info, selected_cards, card_id)
            /\ event' = Clicked("toggle", card_id)
            /\ UNCHANGED other_selected
            /\ UNCHANGED <<mode, checkout_info, case_choice>>

\* the confirm button is drawn when there is a card to show and the
\* selection is not empty
ConfirmShown(t, info, selected) ==
    IF Len(Shown(t, info)) = 0 THEN FALSE
    ELSE IF selected = ABSENT THEN FALSE
    ELSE selected[1] # <<>>

\* a confirmation that empties the selection when the checkout has failed
ConfirmCheckout_DropsSelection(f) ==
    LET t == insert_initial_data(sdcards)
        info == checkout_info[1]
        card_ids == selected_cards[1]
        r == checkout_cards(t, card_ids, info.user_name, info.equipment,
                            info.shoot_content, now, f)
    IN  /\ mode = Val(CHECKOUT)
        /\ ConfirmShown(t, checkout_info, selected_cards)
        /\ CheckoutExecutes(t, card_ids, f)
        /\ sdcards' = r.db
        /\ now' = ClockAfter(now, Rounds(t, card_ids, f))
        /\ call' = [op |-> "checkout",
                    args |-> [card_ids |-> card_ids, user_name |-> info.user_name,
                              equipment |-> info.equipment,
                              shoot_content |-> info.shoot_content]]
        /\ ret' = r.ret
        /\ IF r.ret.success
           THEN /\ checkout_info' = ABSENT
                /\ selected_cards' = ABSENT
                /\ mode' = Val(SELECT)
           ELSE /\ selected_cards' = Val(<<>>)
                /\ UNCHANGED <<mode, checkout_info>>
        /\ event' = Did("confirm")
        /\ UNCHANGED other_selected
        /\ UNCHANGED case_choice

\* a confirmation that deletes selected_cards alone after a success
ConfirmCheckout_KeepsInfo(f) ==
    LET t == insert_initial_data(sdcards)
        info == checkout_info[1]
        card_ids == selected_cards[1]
        r == checkout_cards(t, card_ids, info.user_name, info.equipment,
                            info.shoot_content, now, f)
    IN  /\ mode = Val(CHECKOUT)
        /\ ConfirmShown(t, checkout_info, selected_cards)
        /\ CheckoutExecutes(t, card_ids, f)
        /\ sdcards' = r.db
        /\ now' = ClockAfter(now, Rounds(t, card_ids, f))
        /\ call' = [op |-> "checkout",
                    args |-> [card_ids |-> card_ids, user_name |-> info.user_name,
                              equipment |-> info.equipment,
                              shoot_content |-> info.shoot_content]]
        /\ ret' = r.ret
        /\ IF r.ret.success
           THEN /\ checkout_info' = checkout_info
                /\ selected_cards' = ABSENT
                /\ mode' = Val(SELECT)
           ELSE UNCHANGED <<mode, checkout_info, selected_cards>>
        /\ event' = Did("confirm")
        /\ UNCHANGED other_selected
        /\ UNCHANGED case_choice

ConfirmCheckout(f) ==
    LET t == insert_initial_data(sdcards)
        info == checkout_info[1]
        card_ids == selected_cards[1]
        r == checkout_cards(t, card_ids, info.user_name, info.equipment,
                            info.shoot_content, now, f)
    IN  /\ mode = Val(CHECKOUT)
        /\ ConfirmShown(t, checkout_info, selected_cards)
        /\ CheckoutExecutes(t, card_ids, f)
        /\ sdcards' = r.db
        /\ now' = ClockAfter(now, Rounds(t, card_ids, f))
        /\ call' = [op |-> "checkout",
                    args |-> [card_ids |-> card_ids, user_name |-> info.user_name,
                              equipment |-> info.equipment,
                              shoot_content |-> info.shoot_content]]
        /\ ret' = r.ret
        /\ IF r.ret.success
           THEN /\ checkout_info' = ABSENT
                /\ selected_cards' = ABSENT
                /\ mode' = Val(SELECT)
           ELSE UNCHANGED <<mode, checkout_info, selected_cards>>
        /\ event' = Did("confirm")
        /\ UNCHANGED other_selected
        /\ UNCHANGED case_choice

\* a back button that leaves the selection in the session
BackFromCheckout_KeepsSelection ==
    /\ mode = Val(CHECKOUT)
    /\ SeedOnly
    /\ mode' = Val(SELECT)
    /\ checkout_info' = ABSENT
    /\ selected_cards' = selected_cards
    /\ event' = Did("back")
    /\ UNCHANGED other_selected
    /\ UNCHANGED case_choice

BackFromCheckout ==
    /\ mode = Val(CHECKOUT)
    /\ SeedOnly
    /\ mode' = Val(SELECT)
    /\ checkout_info' = ABSENT
    /\ selected_cards' = ABSENT
    /\ event' = Did("back")
    /\ UNCHANGED other_selected
    /\ UNCHANGED case_choice

\* the selectbox of the return and of the stock screen
ChooseCase ==
    \E c \in CaseNumbers :
        /\ mode \in {Val(RETURN), Val(STATS)}
        /\ SeedOnly
        /\ case_choice' = Val(c)
        /\ event' = Did("choose-case")
        /\ UNCHANGED other_selected
        /\ UNCHANGED <<mode, checkout_info, selected_cards>>

\* the return button of a card the return screen lists
ClickReturn(f) ==
    \E card_id \in CardIds :
        LET t == insert_initial_data(sdcards)
            r == return_card(t, card_id, f)
        IN  /\ mode = Val(RETURN)
            /\ case_choice # ABSENT
            /\ card_id \in Ids(IF case_choice = ABSENT THEN <<>>
                               ELSE get_checked_out_cards_by_case(t, case_choice[1]))
            /\ ReturnExecutes(t, card_id, f)
            /\ sdcards' = r.db
            /\ now' = now
            /\ call' = [op |-> "return", args |-> [NoArgs EXCEPT !.card_ids = <<card_id>>]]
            /\ ret' = r.ret
            /\ event' = Clicked("return", card_id)
            /\ UNCHANGED other_selected
            /\ UNCHANGED <<mode, checkout_info, selected_cards, case_choice>>

\* a back button of the return screen that opens the stock screen
BackFromReturn_ToStats ==
    /\ mode = Val(RETURN)
    /\ SeedOnly
    /\ mode' = Val(STATS)
    /\ case_choice' = ABSENT
    /\ event' = Did("back")
    /\ UNCHANGED other_selected
    /\ UNCHANGED <<checkout_info, selected_cards>>

\* the selectbox is gone with the screen: it is drawn anew, with nothing
\* chosen, when a screen shows it again
BackFromReturn ==
    /\ mode = Val(RETURN)
    /\ SeedOnly
    /\ mode' = Val(SELECT)
    /\ case_choice' = ABSENT
    /\ event' = Did("back")
    /\ UNCHANGED other_selected
    /\ UNCHANGED <<checkout_info, selected_cards>>

BackFromStats ==
    /\ mode = Val(STATS)
    /\ SeedOnly
    /\ mode' = Val(SELECT)
    /\ case_choice' = ABSENT
    /\ event' = Did("back")
    /\ UNCHANGED other_selected
    /\ UNCHANGED <<checkout_info, selected_cards>>

Confirm == ConfirmCheckout(NoFault)
ReturnClicked == ClickReturn(NoFault)

NextUI ==
    \/ Open
    \/ EnterCheckout
    \/ EnterReturn
    \/ EnterStats
    \/ SubmitForm
    \/ Toggle
    \/ Confirm
    \/ BackFromCheckout
    \/ ChooseCase
    \/ ReturnClicked
    \/ BackFromReturn
    \/ BackFromStats

SpecUI == Init /\ [][NextUI]_vars

----------------------------------------------------------------------------
(* A second browser session on the same table.  It runs the same main; of  *)
(* its session state the model keeps the selection.  Its form can be       *)
(* submitted again at any time, which replaces checkout_info and keeps the *)
(* selection, so the container and the borrower data it has stored are     *)
(* chosen anew in each of its steps.  Each run of main, and with it each   *)
(* transaction, is one step.                                               *)

\* form data of the second session that show container c
OtherInfo(c, user_name) ==
    Val([user_name |-> user_name, equipment |-> CHOOSE e \in Equipments : TRUE,
         shoot_content |-> CHOOSE n \in Notes : TRUE, case_number |-> c])

\* the container whose cards the second session has on the screen when it
\* uses the checkbox or the return button of card_id
CaseOf(t, card_id) == IF card_id \in DOMAIN t THEN t[card_id].case_number ELSE CASE_SD1

OtherToggle ==
    \E card_id \in CardIds :
        LET t == insert_initial_data(sdcards)
            info == OtherInfo(CaseOf(t, card_id), "")
        IN  /\ SeedOnly
            /\ card_id \in Ids(Shown(t, info))
            /\ other_selected' =
                   DrawCheckboxes(t, info, Val(other_selected), card_id)[1]
            /\ event' = Clicked("other-toggle", card_id)
            /\ UNCHANGED <<mode, checkout_info, selected_cards, case_choice>>

OtherConfirm ==
    \E user_name \in Users :
        LET t == insert_initial_data(sdcards)
            info == OtherInfo(CHOOSE c \in CaseNumbers : TRUE, user_name)
            r == checkout_cards(t, other_selected, info[1].user_name, info[1].equipment,
                                info[1].shoot_content, now, NoFault)
        IN  /\ IF \E c \in CaseNumbers :
                      ConfirmShown(t, OtherInfo(c, user_name), Val(other_selected))
               THEN TRUE ELSE FALSE
            /\ sdcards' = r.db
            /\ now' = ClockAfter(now, Rounds(t, other_selected, NoFault))
            /\ call' = [op |-> "checkout",
                        args |-> [card_ids |-> other_selected,
                                  user_name |-> info[1].user_name,
                                  equipment |-> info[1].equipment,
                                  shoot_content |-> info[1].shoot_content]]
            /\ ret' = r.ret
            /\ other_selected' = IF r.ret.success THEN <<>> ELSE other_selected
            /\ event' = Did("other-confirm")
            /\ UNCHANGED <<mode, checkout_info, selected_cards, case_choice>>

OtherBack ==
    /\ other_selected # <<>>
    /\ SeedOnly
    /\ other_selected' = <<>>
    /\ event' = Did("other-back")
    /\ UNCHANGED <<mode, checkout_info, selected_cards, case_choice>>

\* the second session is on its return screen, which it reaches without a
\* selection
OtherReturn ==
    \E card_id \in CardIds :
        LET t == insert_initial_data(sdcards)
            r == return_card(t, card_id, NoFault)
        IN  /\ other_selected = <<>>
            /\ card_id \in Ids(get_checked_out_cards_by_case(t, CaseOf(t, card_id)))
            /\ sdcards' = r.db
            /\ now' = now
            /\ call' = [op |-> "return", args |-> [NoArgs EXCEPT !.card_ids = <<card_id>>]]
            /\ ret' = r.ret
            /\ event' = Clicked("other-return", card_id)
            /\ UNCHANGED <<mode, checkout_info, selected_cards, case_choice, other_selected>>

NextShared ==
    \/ Open
    \/ EnterCheckout
    \/ EnterReturn
    \/ EnterStats
    \/ SubmitForm
    \/ Toggle
    \/ Confirm
    \/ BackFromCheckout
    \/ ChooseCase
    \/ ReturnClicked
    \/ BackFromReturn
    \/ BackFromStats
    \/ OtherToggle
    \/ OtherConfirm
    \/ OtherBack
    \/ OtherReturn

SpecShared == Init /\ [][NextShared]_vars

----------------------------------------------------------------------------
(* The screens over a store whose statements may raise *)

ConfirmFaulty == \E f \in Faults : ConfirmCheckout(f)
ReturnClickedFaulty == \E f \in Faults : ClickReturn(f)

NextUIFault ==
    \/ Open
    \/ EnterCheckout
    \/ EnterReturn
    \/ EnterStats
    \/ SubmitForm
    \/ Toggle
    \/ ConfirmFaulty
    \/ BackFromCheckout
    \/ ChooseCase
    \/ ReturnClickedFaulty
    \/ BackFromReturn
    \/ BackFromStats

SpecUIFault == Init /\ [][NextUIFault]_vars

----------------------------------------------------------------------------
(* Properties of checkout_cards *)

\* the rows of t a batch of ids names
BatchRows(t, card_ids) == Range(card_ids) \cap DOMAIN t

\* row is checked out with the metadata of the call
StampedBy(row, args) ==
    /\ row.status = CHECKED_OUT
    /\ row.user_name = Val(args.user_name)
    /\ row.equipment = Val(args.equipment)
    /\ row.shoot_content = Val(args.shoot_content)
    /\ row.checkout_date # NULL

\* C1: a checkout_cards call, whatever statement of it raises, leaves either
\* every card of the batch checked out with the borrower, equipment and note
\* of the call, or every record of the table as it was before the call
C1_CheckoutAllOrNothing ==
    [][call'.op = "checkout" =>
          \/ sdcards' = sdcards
          \/ \A id \in BatchRows(sdcards', call'.args.card_ids) :
                 StampedBy(sdcards'[id], call'.args)]_vars

\* C1 witness: a COMMIT that raised after both UPDATEs of a batch of two
\* available cards, and the cards are still available
C1_Witness ==
    /\ call.op = "checkout"
    /\ ret.message = [kind |-> "error", names |-> <<"commit">>]
    /\ Cardinality(BatchRows(sdcards, call.args.card_ids)) = 2
    /\ \A id \in BatchRows(sdcards, call.args.card_ids) : sdcards[id].status = AVAILABLE

\* the ids of a batch whose card is not available in t
Unavailable(t, card_ids) == {id \in BatchRows(t, card_ids) : t[id].status # AVAILABLE}

\* C2: a checkout of a batch with a card that is not available is refused,
\* changes no record, and its message names each unavailable id of the
\* batch once and no other id
C2_RefusedBatch ==
    [][(call'.op = "checkout" /\ Unavailable(sdcards, call'.args.card_ids) # {}) =>
          /\ ret'.outcome = "returned"
          /\ ret'.success = FALSE
          /\ sdcards' = sdcards
          /\ ret'.message.kind = "unavailable"
          /\ Range(ret'.message.names) =
                 {ToString(id) : id \in Unavailable(sdcards, call'.args.card_ids)}
          /\ Len(ret'.message.names) =
                 Cardinality(Unavailable(sdcards, call'.args.card_ids))]_vars

\* C2 witness: a refused batch of one available and one checked-out card
C2_Witness ==
    /\ call.op = "checkout"
    /\ ret.success = FALSE
    /\ \E a, b \in BatchRows(sdcards, call.args.card_ids) :
          /\ sdcards[a].status = AVAILABLE
          /\ sdcards[b].status = CHECKED_OUT
          /\ ret.message = [kind |-> "unavailable", names |-> <<ToString(b)>>]

\* C3 as claimed: checkout_cards reports success only for a batch that is not
\* empty and whose every id names a row that was available
C3_SuccessMeansAllAvailable ==
    [][(call'.op = "checkout" /\ ret'.success) =>
          /\ call'.args.card_ids # <<>>
          /\ \A id \in Range(call'.args.card_ids) :
                 id \in DOMAIN sdcards /\ sdcards[id].status = AVAILABLE]_vars

----------------------------------------------------------------------------
(* Properties of return_card *)

\* row with the status and the four checkout columns as a return leaves them
Cleared(row) ==
    [row EXCEPT !.status = AVAILABLE, !.checkout_date = NULL, !.user_name = NULL,
                !.equipment = NULL, !.shoot_content = NULL]

\* C5: return_card succeeds on a checked-out card, leaving it available with
\* the four checkout columns NULL; on any other id it fails and changes no
\* record; a second return of the same id right after a successful one fails
C5_ReturnOnce ==
    [][call'.op = "return" =>
          LET id == call'.args.card_ids[1]
          IN  /\ IF id \in DOMAIN sdcards /\ sdcards[id].status = CHECKED_OUT
                 THEN /\ ret'.success
                      /\ sdcards'[id].status = AVAILABLE
                      /\ sdcards'[id].checkout_date = NULL
                      /\ sdcards'[id].user_name = NULL
                      /\ sdcards'[id].equipment = NULL
                      /\ sdcards'[id].shoot_content = NULL
                 ELSE ~ret'.success /\ sdcards' = sdcards
              /\ (call.op = "return" /\ ret.success /\ call.args = call'.args) =>
                     (~ret'.success /\ sdcards' = sdcards)]_vars

\* C5 witness: a return of a card of the table that is not checked out has
\* failed
C5_Witness ==
    /\ call.op = "return"
    /\ ret = Returned(FALSE, "cannot-return", <<>>)
    /\ call.args.card_ids[1] \in DOMAIN sdcards
    /\ sdcards[call.args.card_ids[1]].status = AVAILABLE

\* C6 as claimed: no call of checkout_cards or return_card ends with an
\* exception; each hands back a (success, message) pair
C6_NoExceptionEscapes ==
    call.op \in {"checkout", "return"} => ret.outcome = "returned"

----------------------------------------------------------------------------
(* The life of a card *)

\* C7: a successful checkout changes nothing of a card of the batch but its
\* status and checkout columns, which were those of an available card, and a
\* successful return puts exactly these back: the record after the return is
\* the record before the checkout, and card_number, card_index, capacity and
\* case_number are the same in all three states
C7_LifecycleRoundTrip ==
    [][/\ (call'.op = "checkout" /\ ret'.success) =>
             \A id \in BatchRows(sdcards, call'.args.card_ids) :
                 /\ sdcards'[id].status = CHECKED_OUT
                 /\ sdcards[id] = Cleared(sdcards'[id])
       /\ (call'.op = "return" /\ ret'.success) =>
             LET id == call'.args.card_ids[1]
             IN  /\ sdcards[id].status = CHECKED_OUT
                 /\ sdcards'[id] = Cleared(sdcards[id])
                 /\ sdcards'[id].card_number = sdcards[id].card_number
                 /\ sdcards'[id].card_index = sdcards[id].card_index
                 /\ sdcards'[id].capacity = sdcards[id].capacity
                 /\ sdcards'[id].case_number = sdcards[id].case_number]_vars

\* C7 witness: a card has been checked out and returned
C7_Witness ==
    /\ call.op = "return"
    /\ ret.success
    /\ sdcards[call.args.card_ids[1]] = Cleared(sdcards[call.args.card_ids[1]])

----------------------------------------------------------------------------
(* The read queries *)

Numbers(rows) == {rows[i].card_number : i \in DOMAIN rows}

\* C8: for every container the available and the checked-out listing share
\* no card, together hold exactly the cards of the full listing, and hold a
\* card of the container iff its status is AVAILABLE, resp. CHECKED_OUT
C8_ListingsPartition ==
    \A c \in CaseNumbers :
        LET available == get_available_cards_by_case(sdcards, c)
            checked_out == get_checked_out_cards_by_case(sdcards, c)
            all == get_cards_by_case(sdcards, c)
            inAvailable == Numbers(available)
            inCheckedOut == Numbers(checked_out)
        IN  /\ inAvailable \cap inCheckedOut = {}
            /\ inAvailable \cup inCheckedOut = Numbers(all)
            /\ Len(available) + Len(checked_out) = Len(all)
            /\ \A id \in DOMAIN sdcards :
                   sdcards[id].case_number = c =>
                     /\ sdcards[id].card_number \in inAvailable
                            <=> sdcards[id].status = AVAILABLE
                     /\ sdcards[id].card_number \in inCheckedOut
                            <=> sdcards[id].status = CHECKED_OUT

\* C8 witness: a container with available and with checked-out cards
C8_Witness ==
    \E c \in CaseNumbers :
        /\ Len(get_available_cards_by_case(sdcards, c)) > 0
        /\ Len(get_checked_out_cards_by_case(sdcards, c)) > 0

\* C9: after a successful checkout every card of the batch is listed as
\* checked out in its container with the borrower, equipment and note of
\* the call and a checkout date, and is not listed as available there
C9_CheckoutThenList ==
    (call.op = "checkout" /\ ret.success) =>
        \A id \in BatchRows(sdcards, call.args.card_ids) :
            LET c == sdcards[id].case_number
                checked_out == get_checked_out_cards_by_case(sdcards, c)
                available == get_available_cards_by_case(sdcards, c)
            IN  /\ \E i \in DOMAIN checked_out :
                       /\ checked_out[i].id = id
                       /\ checked_out[i].user_name = Val(call.args.user_name)
                       /\ checked_out[i].equipment = Val(call.args.equipment)
                       /\ checked_out[i].shoot_content = Val(call.args.shoot_content)
                       /\ checked_out[i].checkout_date # NULL
                /\ \A i \in DOMAIN available : available[i].id # id

\* C9 witness: a successful checkout of two cards
C9_Witness ==
    /\ call.op = "checkout"
    /\ ret.success
    /\ Cardinality(BatchRows(sdcards, call.args.card_ids)) = 2

----------------------------------------------------------------------------
(* Seeding *)

\* C10: once seeded the table holds 120 rows, 40 of each container, whatever
\* seed, checkout and return calls follow, and a seed call on a table that is
\* not empty changes no record
C10_SeedOnce ==
    [][/\ Cardinality(DOMAIN sdcards') = 120
       /\ \A c \in CaseNumbers :
              Cardinality({id \in DOMAIN sdcards' : sdcards'[id].case_number = c}) = 40
       /\ (call'.op = "seed" /\ DOMAIN sdcards # {}) => sdcards' = sdcards]_vars

\* C10 witness: a seed call has run on a table with a checked-out card
C10_Witness ==
    /\ call.op = "seed"
    /\ \E id \in DOMAIN sdcards : sdcards[id].status = CHECKED_OUT

----------------------------------------------------------------------------
(* The records under the screens *)

CheckoutFields == {"checkout_date", "user_name", "equipment", "shoot_content"}

\* C4: in every state the screens can reach, the status of each card is
\* AVAILABLE or CHECKED_OUT, and its checkout date, borrower, equipment
\* and note are all non-null if and only if the status is CHECKED_OUT
C4_CheckoutFieldsIffCheckedOut ==
    \A id \in DOMAIN sdcards :
        /\ sdcards[id].status \in {AVAILABLE, CHECKED_OUT}
        /\ (\A col \in CheckoutFields : sdcards[id][col] # NULL)
               <=> sdcards[id].status = CHECKED_OUT

\* C4 witness: the screens have checked out two cards, returned one of them,
\* and the user is back on the return screen
C4_Witness ==
    /\ mode = Val(RETURN)
    /\ call.op = "return"
    /\ ret.success
    /\ \E id \in DOMAIN sdcards : sdcards[id].status = CHECKED_OUT
    /\ sdcards[call.args.card_ids[1]].status = AVAILABLE

----------------------------------------------------------------------------
(* The screens *)

\* C11: the first run shows the start screen; on the checkout, the return
\* and the stock screen the back button can always be pressed and leads to
\* the start screen; pressed on the checkout screen it also removes
\* checkout_info and selected_cards and changes no record
C11_BackLeadsToSelect ==
    /\ [](mode = Val(CHECKOUT) => ENABLED BackFromCheckout)
    /\ [](mode = Val(RETURN) => ENABLED BackFromReturn)
    /\ [](mode = Val(STATS) => ENABLED BackFromStats)
    /\ [][/\ mode = ABSENT => mode' = Val(SELECT)
          /\ event'.name = "back" =>
                /\ mode \in {Val(CHECKOUT), Val(RETURN), Val(STATS)}
                /\ mode' = Val(SELECT)
                /\ sdcards' = sdcards
                /\ mode = Val(CHECKOUT) =>
                       checkout_info' = ABSENT /\ selected_cards' = ABSENT]_vars

\* C11 witness: back has been pressed on the checkout screen after a card
\* was selected there, and the start screen holds no form data and no
\* selection
C11_Witness ==
    /\ event.name = "back"
    /\ mode = Val(SELECT)
    /\ checkout_info = ABSENT
    /\ selected_cards = ABSENT
    /\ \E id \in DOMAIN sdcards : sdcards[id].status = CHECKED_OUT

\* C12: a confirmed checkout that succeeds leads to the start screen with
\* checkout_info and selected_cards removed; one that fails stays on the
\* checkout screen with checkout_info and selected_cards as they were
C12_ConfirmOutcome ==
    [][event'.name = "confirm" =>
          /\ mode = Val(CHECKOUT)
          /\ call'.op = "checkout"
          /\ IF ret'.success
             THEN /\ mode' = Val(SELECT)
                  /\ checkout_info' = ABSENT
                  /\ selected_cards' = ABSENT
             ELSE /\ mode' = Val(CHECKOUT)
                  /\ checkout_info' = checkout_info
                  /\ selected_cards' = selected_cards
                  /\ checkout_info' # ABSENT
                  /\ selected_cards' # ABSENT]_vars

\* C12 witness: a confirmation has failed, because the second session had
\* checked out a selected card, and the selection is still there
C12_Witness ==
    /\ event.name = "confirm"
    /\ ~ret.success
    /\ ret.message.kind = "unavailable"
    /\ mode = Val(CHECKOUT)
    /\ selected_cards # ABSENT
    /\ selected_cards # Val(<<>>)

\* form data with a borrower, an equipment and a container of the table
Complete(info) ==
    /\ info.user_name # ""
    /\ info.equipment # ""
    /\ info.case_number \in CaseNumbers

\* C13: the stored form data always name a borrower, an equipment and a
\* container, and the arguments of every checkout_cards call of the screen
\* are taken from them; a submission that leaves one of the three empty
\* leaves the stored form data and the screen mode as they were, changes no
\* record and calls neither checkout_cards nor return_card
C13_ValidationGatesCheckout ==
    [][/\ checkout_info' # ABSENT => Complete(checkout_info'[1])
       /\ event'.name = "confirm" =>
             /\ checkout_info # ABSENT
             /\ Complete(checkout_info[1])
             /\ call'.args.user_name = checkout_info[1].user_name
             /\ call'.args.equipment = checkout_info[1].equipment
       /\ call'.op = "checkout" => event'.name = "confirm"
       /\ (event'.name = "submit" /\ event'.incomplete) =>
             /\ checkout_info' = checkout_info
             /\ mode' = mode
             /\ sdcards' = sdcards
             /\ call'.op \notin {"checkout", "return"}]_vars

\* C13 witness: an incomplete form has been submitted over stored form
\* data, which are still there
C13_Witness ==
    /\ event.name = "submit"
    /\ event.incomplete
    /\ mode = Val(CHECKOUT)
    /\ checkout_info # ABSENT

\* C14: a return button pressed on the return screen leaves the screen mode
\* and the session as they are; when return_card succeeds, the checked-out
\* list of the chosen container no longer holds the card and the record of
\* every other card is unchanged; when it fails, no record changes
C14_ReturnOneCard ==
    [][event'.name = "return" =>
          /\ mode = Val(RETURN)
          /\ mode' = mode
          /\ checkout_info' = checkout_info
          /\ selected_cards' = selected_cards
          /\ case_choice' = case_choice
          /\ call'.op = "return"
          /\ call'.args.card_ids = <<event'.card_id>>
          /\ IF ret'.success
             THEN /\ event'.card_id \notin
                         Ids(get_checked_out_cards_by_case(sdcards', case_choice[1]))
                  /\ sdcards[event'.card_id].case_number = case_choice[1]
                  /\ sdcards'[event'.card_id] # sdcards[event'.card_id]
                  /\ DOMAIN sdcards' = DOMAIN sdcards
                  /\ \A id \in DOMAIN sdcards \ {event'.card_id} :
                         sdcards'[id] = sdcards[id]
             ELSE sdcards' = sdcards]_vars

\* C14 witness: a return button was pressed, return_card has failed, and
\* the card is still listed as checked out on the return screen
C14_Witness ==
    /\ event.name = "return"
    /\ ~ret.success
    /\ mode = Val(RETURN)
    /\ case_choice # ABSENT
    /\ sdcards[event.card_id].status = CHECKED_OUT
    /\ \E id \in DOMAIN sdcards : id # event.card_id /\ sdcards[id].status = CHECKED_OUT

\* C15 as claimed: every id a confirmation passes to checkout_cards is the
\* id of a card the selection screen shows, an available card of the
\* container of the stored form data
C15_SelectionIsShown ==
    [][event'.name = "confirm" =>
          \A id \in Range(call'.args.card_ids) :
              /\ id \in DOMAIN sdcards
              /\ sdcards[id].case_number = checkout_info[1].case_number
              /\ sdcards[id].status = AVAILABLE]_vars

\* C16: after the first run has shown the start screen, the mode changes
\* only from the start screen to the screen of the button pressed there, and
\* from the checkout, return or stock screen to the start screen, by the
\* back button or, on the checkout screen, by a confirmation that succeeds;
\* a form submission, a checkbox, a container choice and a store call that
\* fails leave the mode as it is
C16_ModeChangesByButton ==
    [][/\ (mode' # mode /\ mode # ABSENT) =>
             \/ /\ mode = Val(SELECT)
                /\ \/ event'.name = "enter-checkout" /\ mode' = Val(CHECKOUT)
                   \/ event'.name = "enter-return" /\ mode' = Val(RETURN)
                   \/ event'.name = "enter-stats" /\ mode' = Val(STATS)
             \/ /\ mode = Val(CHECKOUT)
                /\ mode' = Val(SELECT)
                /\ \/ event'.name = "back"
                   \/ event'.name = "confirm" /\ ret'.success
             \/ /\ mode \in {Val(RETURN), Val(STATS)}
                /\ mode' = Val(SELECT)
                /\ event'.name = "back"
       /\ event'.name \in {"submit", "toggle", "choose-case"} => mode' = mode
       /\ (event'.name \in {"confirm", "return"} /\ ~ret'.success) => mode' = mode]_vars

\* C16 witness: a confirmation whose checkout_cards call failed on a raising
\* statement has left the user on the checkout screen
C16_Witness ==
    /\ event.name = "confirm"
    /\ ~ret.success
    /\ ret.message.kind \in {"error", "exception"}
    /\ mode = Val(CHECKOUT)

\* the columns no statement of checkout_cards or return_card assigns
Identity(row) ==
    [id |-> row.id, card_number |-> row.card_number, card_index |-> row.card_index,
     capacity |-> row.capacity, case_number |-> row.case_number]

\* C17: once the table is seeded, a call of checkout_cards, of return_card
\* or of insert_initial_data, failed or not, adds no row and deletes none
\* and leaves id, card_number, card_index, capacity and case_number of every
\* row as they were; a row differs afterwards only if the call was a
\* checkout or a return that reported success and named the row's id
C17_FrameOfStoreCalls ==
    [][Seeded =>
          /\ DOMAIN sdcards' = DOMAIN sdcards
          /\ \A id \in DOMAIN sdcards :
                 sdcards'[id] # sdcards[id] =>
                     /\ Identity(sdcards'[id]) = Identity(sdcards[id])
                     /\ call'.op \in {"checkout", "return"}
                     /\ ret'.success
                     /\ id \in Range(call'.args.card_ids)]_vars

\* C17 witness: a checkout has stamped one card of a full table and left
\* another card of the same container untouched
C17_Witness ==
    /\ call.op = "checkout"
    /\ ret.success
    /\ Cardinality(DOMAIN sdcards) = 3 * CardsPerCase
    /\ \E id \in Range(call.args.card_ids) : sdcards[id].status = CHECKED_OUT
    /\ \E id \in DOMAIN sdcards \ Range(call.args.card_ids) :
           sdcards[id] = Cleared(sdcards[id])

C19_CheckoutStateOnlyInCheckout ==
    /\ [](mode \in {Val(SELECT), Val(RETURN), Val(STATS)} =>
              checkout_info = ABSENT /\ selected_cards = ABSENT)
    /\ [][(mode # Val(CHECKOUT) /\ mode' = Val(CHECKOUT)) =>
              /\ event'.name = "enter-checkout"
              /\ checkout_info' = ABSENT
              /\ selected_cards' = ABSENT]_vars

\* C19 witness: after a checkout that went through the form and the
\* selection, the session is on the return screen and holds neither key
C19_Witness ==
    /\ mode = Val(RETURN)
    /\ checkout_info = ABSENT
    /\ selected_cards = ABSENT
    /\ \E id \in DOMAIN sdcards : sdcards[id].status = CHECKED_OUT

\* the rows of container c in table t
RowsOfCase(t, c) == {id \in DOMAIN t : t[id].case_number = c}

\* C20: insert_initial_data on an empty table stores three containers of 40
\* cards each, numbered 1 to 40 within the container, no two cards of the
\* table with the same card_number, each available with its four checkout
\* columns NULL; the first container holds 32G at 1 to 11, 64G at 12 to 18
\* and 128G at 19 to 40, the second 64G throughout, the third 32G throughout
C20_SeededTable ==
    [][(call'.op = "seed" /\ DOMAIN sdcards = {}) =>
          /\ {sdcards'[id].case_number : id \in DOMAIN sdcards'} =
                 {CASE_SD1, CASE_SD2, CASE_MICRO}
          /\ Cardinality({CASE_SD1, CASE_SD2, CASE_MICRO}) = 3
          /\ \A c \in {CASE_SD1, CASE_SD2, CASE_MICRO} :
                 /\ Cardinality(RowsOfCase(sdcards', c)) = 40
                 /\ {sdcards'[id].card_index : id \in RowsOfCase(sdcards', c)} = 1..40
          /\ Cardinality({sdcards'[id].card_number : id \in DOMAIN sdcards'}) =
                 Cardinality(DOMAIN sdcards')
          /\ \A id \in DOMAIN sdcards' :
                 /\ sdcards'[id].status = AVAILABLE
                 /\ \A col \in CheckoutFields : sdcards'[id][col] = NULL
          /\ \A id \in RowsOfCase(sdcards', CASE_SD1) :
                 sdcards'[id].capacity =
                     IF sdcards'[id].card_index \in 1..11 THEN "32G"
                     ELSE IF sdcards'[id].card_index \in 12..18 THEN "64G"
                     ELSE "128G"
          /\ \A id \in RowsOfCase(sdcards', CASE_SD2) : sdcards'[id].capacity = "64G"
          /\ \A id \in RowsOfCase(sdcards', CASE_MICRO) : sdcards'[id].capacity = "32G"]_vars

\* C20 witness: the first seed call has filled the empty table and no card
\* has been lent since; the card numbered 12 of the first container is there
C20_Witness ==
    /\ call.op = "seed"
    /\ Cardinality(DOMAIN sdcards) = 3 * CardsPerCase
    /\ \A id \in DOMAIN sdcards : sdcards[id].status = AVAILABLE
    /\ \E id \in RowsOfCase(sdcards, CASE_SD1) :
           sdcards[id].card_index = 12 /\ sdcards[id].capacity = "64G"

====
